---- MODULE Spec2Model ----
(***************************************************************************)
(* Model of the two bots of simple-telegram-subscription-bot.              *)
(*                                                                         *)
(*   linkgen.py  TelegramGroupManagerBot: the invite-link registry         *)
(*               (link_data), its store file and the two-step revocation   *)
(*               workflow (pending_confirmations, pending_revokes).        *)
(*   main.py     MembershipTrackerBot: the membership registry             *)
(*               (join_data), its store file and the expiry sweep.         *)
(*                                                                         *)
(* The two bots are separate processes with separate state; SpecLink and   *)
(* SpecMember are their two specifications.  The handlers of linkgen.py    *)
(* are dispatched one update at a time (Application.process_update awaits  *)
(* each handler), so each handler is one atomic action.  A platform call   *)
(* that fails raises telegram.error.TelegramError; its outcome is an       *)
(* input of the action.  A reply to the user is always the last statement  *)
(* of its path and changes no state of the bot, so it is recorded only as  *)
(* the kind of reply.                                                      *)
(*                                                                         *)
(* Further specifications over the same variables:                         *)
(*   SpecLinkFaults  the link bot with failing writes of its store         *)
(*   SpecLinkCrash   the link bot with crashes and restarts of its process *)
(*   SpecJoins       the join events of the member bot, with their history *)
(*   SpecSweeps      the sweep of the member bot step by step, the daily   *)
(*                   job interleaved with the handlers at its awaits       *)
(*   SpecRetry       the sweeps step by step with fairness, for what       *)
(*                   becomes of an expired record in the long run          *)
(*   SpecCommands    the commands of both bots                             *)
(*   SpecFaults      both bots with failing writes of their stores         *)
(***************************************************************************)
EXTENDS Integers, Sequences, FiniteSets, TLC

VARIABLES
    link_data,              \* linkgen.py self.link_data: token -> link_info
    pending_confirmations,  \* linkgen.py self.pending_confirmations (its keys)
    pending_revokes,        \* linkgen.py self.pending_revokes (its keys)
    link_file,              \* the file invite_links.json
    link_clock,             \* time.time() of the link bot, in seconds
    link_ticks,             \* clock advances taken (bounded by MaxTicks)
    link_faults,            \* failed writes of invite_links.json still to come
    link_last,              \* what the last handler of the link bot did
    link_asked,             \* history: the links that were active when a
                            \* user who awaits the confirmation asked
    join_data,              \* main.py self.join_data: chat -> user -> ISO date
    join_file,              \* the file member_join_dates.json
    join_clock,             \* datetime.now() of the member bot, in days
    join_ticks,             \* clock advances taken (bounded by MaxTicks)
    join_faults,            \* failed writes of member_join_dates.json to come
    join_last,              \* what the last handler of the member bot did
    sweeps,                 \* the invocations of remove_expired_members that
                            \* are under way, where they run step by step
    join_seen               \* history: first and latest join event of a
                            \* (chat, user) pair, where it is recorded

link_vars == <<link_data, pending_confirmations, pending_revokes, link_file,
               link_clock, link_ticks, link_faults, link_last, link_asked>>
join_vars == <<join_data, join_file, join_clock, join_ticks, join_faults,
               join_last, sweeps, join_seen>>
vars == <<link_vars, join_vars>>

----------------------------------------------------------------------------
(* Bounds of the model *)

MaxTicks == 2          \* clock advances per run
MaxFaults == 1         \* failed store writes per run, where writes may fail

(* Program constants *)

LINK_EXPIRE_HOURS == 1         \* config value read at linkgen.py:8
LINK_MEMBER_LIMIT == 1         \* config value read at linkgen.py:8
SecondsPerHour == 3600         \* linkgen.py:66
RetentionDays == 30            \* main.py:152

ADMIN_USER_IDS == {"a1"}               \* config.ADMIN_USER_IDS
LinkUsers == {"a1", "n1"}              \* senders of updates; n1 is no admin

EmptyMap == [x \in {} |-> 0]

----------------------------------------------------------------------------
(* Text: a message text is a sequence of characters *)

Yes == <<"y", "e", "s">>
T1 == <<"t", "1">>
T2 == <<"t", "2">>
T3 == <<"t", "3">>
Tokens == {T1, T2}      \* the tokens the platform issues in a run

Texts == {Yes, <<"Y", "E", "S">>, <<" ", "y", "e", "s">>, <<"n", "o">>,
          T1, <<" ", "t", "2", " ">>, <<"t", "9">>}

(* str.lower(), on the characters of the model's alphabet *)
LowerChar(c) ==
    CASE c = "Y" -> "y"
      [] c = "E" -> "e"
      [] c = "S" -> "s"
      [] c = "N" -> "n"
      [] c = "O" -> "o"
      [] c = "T" -> "t"
      [] OTHER -> c

lower(s) == [i \in 1..Len(s) |-> LowerChar(s[i])]

IsSpace(c) == c \in {" ", "\t", "\n"}

RECURSIVE lstrip(_)
lstrip(s) == IF s # <<>> /\ IsSpace(Head(s)) THEN lstrip(Tail(s)) ELSE s

RECURSIVE rstrip(_)
rstrip(s) ==
    IF s # <<>> /\ IsSpace(s[Len(s)]) THEN rstrip(SubSeq(s, 1, Len(s) - 1))
    ELSE s

(* str.strip() *)
strip(s) == rstrip(lstrip(s))

----------------------------------------------------------------------------
(* Store files (load_data / save_data of both bots) *)

MissingFile == [state |-> "missing", data |-> EmptyMap]
CorruptFile == [state |-> "corrupt", data |-> EmptyMap]
FileOf(reg) == [state |-> "ok", data |-> reg]

(* load_data: a missing or unparsable file gives the empty mapping *)
load_data(file) == IF file.state = "ok" THEN file.data ELSE EmptyMap

(* save_data: open(..., 'w') truncates the file and json.dump rewrites it
   wholesale; every exception is caught and logged.  "open_failed" leaves
   the file as it was, "write_failed" leaves a truncated file. *)
save_data(reg, file, out) ==
    CASE out = "ok" -> FileOf(reg)
      [] out = "open_failed" -> file
      [] OTHER -> CorruptFile

(* the outcomes of a write while `faults` failures are still to come *)
SaveOutcomes(faults) ==
    IF faults > 0 THEN {"ok", "open_failed", "write_failed"} ELSE {"ok"}

Faults(faults, out) == IF out = "ok" THEN faults ELSE faults - 1

----------------------------------------------------------------------------
(* linkgen.py: the invite-link registry *)

(* is_admin that lets everybody pass *)
is_admin_anybody(user_id) == TRUE

is_admin(user_id) == user_id \in ADMIN_USER_IDS

(* the test of list_links, revoke_all_links and handle_pending_actions *)
IsActive(info, current_time) ==
    info.expires_at > current_time /\ info.uses < info.max_uses

(* every record of the registry taken as active *)
ActiveLinks_any_record(data, current_time) == DOMAIN data

ActiveLinks(data, current_time) ==
    {link \in DOMAIN data : IsActive(data[link], current_time)}

(* del self.link_data[link] for every link of a set *)
DeleteLinks(data, links) == [k \in DOMAIN data \ links |-> data[k]]

(* self.link_data[link] = link_info *)
StoreLink(data, link, info) ==
    [k \in DOMAIN data \cup {link} |-> IF k = link THEN info ELSE data[k]]

LinkLast(op, user, text, calls, saves, reply, count) ==
    [op |-> op, user |-> user, text |-> text, calls |-> calls,
     listed |-> {}, asked |-> {}, saves |-> saves, reply |-> reply,
     count |-> count]

(* A store that an earlier run of the bot left behind: one link whose quota
   is used up (uses is counted by the platform, not by this bot). *)
OldStores ==
    {EmptyMap,
     [k \in {T3} |-> [created_by |-> "a1", expires_at |-> 2 * SecondsPerHour,
                      uses |-> 1, max_uses |-> 1]]}

LinkInit ==
    /\ \E old \in OldStores :
          /\ link_file = IF old = EmptyMap THEN MissingFile ELSE FileOf(old)
          /\ link_data = load_data(link_file)
    /\ pending_confirmations = {}
    /\ pending_revokes = {}
    /\ link_clock = 0
    /\ link_ticks = 0
    /\ link_last = LinkLast("init", "", <<>>, {}, 0, "", 0)
    /\ link_asked = EmptyMap

(* context.bot.revoke_chat_invite_link(GROUP_CHAT_ID, link) *)
ApiOutcomes == {"ok", "TelegramError"}

(* context.bot.create_chat_invite_link(...): the platform issues a token
   that no record of the registry carries, or the call fails *)
MintOutcomes ==
    {[ok |-> FALSE, link |-> <<>>]}
        \cup {[ok |-> TRUE, link |-> t] : t \in Tokens \ DOMAIN link_data}

(* context.args of /revoke: the words after the command *)
Args == {<<>>, <<T1>>, <<T3>>, <<<<"t", "9">>>>}

NoEffect(reply) ==
    [data |-> link_data, file |-> link_file, faults |-> link_faults,
     calls |-> {}, saves |-> 0, reply |-> reply, count |-> 0]

(* generate_invite_link without the save_data of line 83 *)
generate_invite_link_unsaved(user, mint, out) ==
    IF ~is_admin(user) \/ ~mint.ok THEN NoEffect("error")
    ELSE
        LET link_info == [created_by |-> user,
                          expires_at |-> link_clock
                              + LINK_EXPIRE_HOURS * SecondsPerHour,
                          uses |-> 0, max_uses |-> LINK_MEMBER_LIMIT]
        IN  [data |-> StoreLink(link_data, mint.link, link_info),
             file |-> link_file, faults |-> link_faults, calls |-> {},
             saves |-> 0, reply |-> "generated", count |-> 0]

(* generate_invite_link that takes its assignment back when the write of
   the store failed *)
generate_invite_link_rollback(user, mint, out) ==
    IF ~is_admin(user) THEN NoEffect("not_admin")
    ELSE IF ~mint.ok THEN NoEffect("error")
    ELSE IF out # "ok"
    THEN [NoEffect("error") EXCEPT !.faults = Faults(link_faults, out),
                                   !.saves = 1]
    ELSE
        LET link_info == [created_by |-> user,
                          expires_at |-> link_clock
                              + LINK_EXPIRE_HOURS * SecondsPerHour,
                          uses |-> 0, max_uses |-> LINK_MEMBER_LIMIT]
            data == StoreLink(link_data, mint.link, link_info)
        IN  [data |-> data, file |-> save_data(data, link_file, out),
             faults |-> Faults(link_faults, out), calls |-> {}, saves |-> 1,
             reply |-> "generated", count |-> 0]

(* generate_invite_link, lines 58-96 *)
generate_invite_link(user, mint, out) ==
    IF ~is_admin(user) THEN NoEffect("not_admin")
    ELSE IF ~mint.ok THEN NoEffect("error")
    ELSE
        LET expire_date == link_clock + LINK_EXPIRE_HOURS * SecondsPerHour
            link_info == [created_by |-> user, expires_at |-> expire_date,
                          uses |-> 0, max_uses |-> LINK_MEMBER_LIMIT]
            data == StoreLink(link_data, mint.link, link_info)
        IN  [data |-> data, file |-> save_data(data, link_file, out),
             faults |-> Faults(link_faults, out), calls |-> {}, saves |-> 1,
             reply |-> "generated", count |-> 0]

(* process_revoke_request with the deletion moved inside the try: a failed
   platform call leaves the record *)
process_revoke_request_in_try(link, api, out) ==
    IF link \in DOMAIN link_data /\ api = "ok" THEN
        LET data == DeleteLinks(link_data, {link})
        IN  [data |-> data, file |-> save_data(data, link_file, out),
             faults |-> Faults(link_faults, out),
             calls |-> {[link |-> link, ok |-> TRUE]}, saves |-> 1,
             reply |-> "revoked", count |-> 0]
    ELSE NoEffect(IF link \in DOMAIN link_data THEN "error" ELSE "not_found")

(* process_revoke_request that writes the store for an unknown link too *)
process_revoke_request_resaves(link, api, out) ==
    LET data == DeleteLinks(link_data, {link})
    IN  [data |-> data, file |-> save_data(data, link_file, out),
         faults |-> Faults(link_faults, out),
         calls |-> IF link \in DOMAIN link_data
                   THEN {[link |-> link, ok |-> api = "ok"]} ELSE {},
         saves |-> 1,
         reply |-> IF link \in DOMAIN link_data THEN "revoked"
                   ELSE "not_found",
         count |-> 0]

(* process_revoke_request, lines 190-212: the platform call sits in a bare
   try/except, so its outcome changes nothing but the record of the call *)
process_revoke_request(link, api, out) ==
    IF link \in DOMAIN link_data THEN
        LET data == DeleteLinks(link_data, {link})
        IN  [data |-> data, file |-> save_data(data, link_file, out),
             faults |-> Faults(link_faults, out),
             calls |-> {[link |-> link, ok |-> api = "ok"]}, saves |-> 1,
             reply |-> "revoked", count |-> 0]
    ELSE NoEffect("not_found")

(* revoked_count incremented for every link processed *)
RevokedCount_processed(calls) == Cardinality(calls)

(* revoked_count of handle_pending_actions, lines 260-266: incremented after
   the platform call returned, inside the try *)
RevokedCount(calls) == Cardinality({c \in calls : c.ok})

(* the loop with the deletion moved inside the try *)
RevokeAll_in_try(fails, out) ==
    LET active == ActiveLinks(link_data, link_clock)
        calls == {[link |-> l, ok |-> l \notin fails] : l \in active}
        data == DeleteLinks(link_data, active \ fails)
    IN  [data |-> data, file |-> save_data(data, link_file, out),
         faults |-> Faults(link_faults, out), calls |-> calls, saves |-> 1,
         reply |-> "revoked_all", count |-> RevokedCount(calls)]

(* the loop over the links that were active when the confirmation was
   asked for *)
RevokeAll_as_requested(fails, out) ==
    LET active == UNION {link_asked[u] : u \in DOMAIN link_asked}
                      \cap DOMAIN link_data
        calls == {[link |-> l, ok |-> l \notin fails] : l \in active}
        data == DeleteLinks(link_data, active)
    IN  [data |-> data, file |-> save_data(data, link_file, out),
         faults |-> Faults(link_faults, out), calls |-> calls, saves |-> 1,
         reply |-> "revoked_all", count |-> RevokedCount(calls)]

(* the loop of handle_pending_actions, lines 259-274 *)
RevokeAll(fails, out) ==
    LET current_time == link_clock
        active == ActiveLinks(link_data, current_time)
        calls == {[link |-> l, ok |-> l \notin fails] : l \in active}
        data == DeleteLinks(link_data, active)
    IN  [data |-> data, file |-> save_data(data, link_file, out),
         faults |-> Faults(link_faults, out), calls |-> calls, saves |-> 1,
         reply |-> "revoked_all", count |-> RevokedCount(calls)]

(* the confirmation compared after stripping white space *)
IsConfirmation_stripped(text) == lower(strip(text)) = Yes

(* update.message.text.lower() == 'yes', line 257 *)
IsConfirmation(text) == lower(text) = Yes

Apply(r, op, user, text) ==
    /\ link_data' = r.data
    /\ link_file' = r.file
    /\ link_faults' = r.faults
    /\ link_last' = LinkLast(op, user, text, r.calls, r.saves, r.reply, r.count)

(* /link *)
GenerateInviteLink(user) ==
    /\ IF ~is_admin(user)
       THEN Apply(NoEffect("not_admin"), "link", user, <<>>)
       ELSE \E mint \in MintOutcomes :
              IF ~mint.ok
              THEN Apply(NoEffect("error"), "link", user, <<>>)
              ELSE \E out \in SaveOutcomes(link_faults) :
                     Apply(generate_invite_link(user, mint, out), "link",
                           user, mint.link)
    /\ UNCHANGED <<pending_confirmations, pending_revokes, link_clock,
                   link_ticks, link_asked, join_vars>>

(* process_revoke_request with the outcomes of its platform call and of its
   save, which it reaches only for a link of the registry *)
ProcessRevokeRequest(op, user, text, link) ==
    IF link \in DOMAIN link_data
    THEN \E api \in ApiOutcomes, out \in SaveOutcomes(link_faults) :
           Apply(process_revoke_request(link, api, out), op, user, text)
    ELSE Apply(process_revoke_request(link, "ok", "ok"), op, user, text)

(* list_links that looks at the expiry only *)
list_links_unexpired(data, current_time) ==
    {link \in DOMAIN data : data[link].expires_at > current_time}

(* list_links, lines 138-163: the links it reports *)
list_links(data, current_time) == ActiveLinks(data, current_time)

(* /list_links *)
ListLinks(user) ==
    /\ IF ~is_admin(user)
       THEN link_last' = LinkLast("list", user, <<>>, {}, 0, "not_admin", 0)
       ELSE LET current_time == link_clock
                active_links == list_links(link_data, current_time)
            IN  link_last' =
                    [LinkLast("list", user, <<>>, {}, 0,
                              IF active_links # {} THEN "listed"
                              ELSE "none_active", 0)
                        EXCEPT !.listed = active_links]
    /\ UNCHANGED <<link_data, link_file, link_faults, pending_confirmations,
                   pending_revokes, link_clock, link_ticks, link_asked,
                   join_vars>>

(* /revoke [link], revoke_link lines 168-188 *)
RevokeLink(user, args) ==
    /\ IF ~is_admin(user) THEN
           /\ Apply(NoEffect("not_admin"), "revoke", user, <<>>)
           /\ UNCHANGED pending_revokes
       ELSE IF args # <<>> THEN
           /\ ProcessRevokeRequest("revoke", user, args[1], args[1])
           /\ UNCHANGED pending_revokes
       ELSE
           /\ pending_revokes' = pending_revokes \cup {user}
           /\ Apply(NoEffect("ask_link"), "revoke", user, <<>>)
    /\ UNCHANGED <<pending_confirmations, link_clock, link_ticks, link_asked,
                   join_vars>>

(* the history of the requests, with the links counted at line 237 for the
   request of `user` *)
Asked(asked, user, links) ==
    [u \in DOMAIN asked \cup {user} |->
        IF u = user THEN links ELSE asked[u]]

(* the history without the request of `user` *)
Answered(asked, user) == [u \in DOMAIN asked \ {user} |-> asked[u]]

(* the answer of `user` to the confirmation has been handled *)
ApplyAnswer(r, user, text) ==
    /\ link_data' = r.data
    /\ link_file' = r.file
    /\ link_faults' = r.faults
    /\ link_last' = [LinkLast("text", user, text, r.calls, r.saves, r.reply,
                              r.count)
                        EXCEPT !.asked = link_asked[user]]
    /\ link_asked' = Answered(link_asked, user)

(* /revoke_all, revoke_all_links lines 217-243 *)
RevokeAllLinks(user) ==
    /\ IF ~is_admin(user) THEN
           /\ Apply(NoEffect("not_admin"), "revoke_all", user, <<>>)
           /\ UNCHANGED <<pending_confirmations, link_asked>>
       ELSE
           LET current_time == link_clock
               active_links == ActiveLinks(link_data, current_time)
           IN  IF active_links = {} THEN
                   /\ Apply(NoEffect("nothing_to_revoke"), "revoke_all",
                            user, <<>>)
                   /\ UNCHANGED <<pending_confirmations, link_asked>>
               ELSE
                   /\ pending_confirmations' =
                          pending_confirmations \cup {user}
                   /\ link_asked' = Asked(link_asked, user, active_links)
                   /\ Apply([NoEffect("ask_confirmation") EXCEPT
                                !.count = Cardinality(active_links)],
                            "revoke_all", user, <<>>)
    /\ UNCHANGED <<pending_revokes, link_clock, link_ticks, join_vars>>

(* a text message that is no command, handle_pending_actions lines 248-290 *)
HandlePendingActions(user_id, text) ==
    /\ IF user_id \in pending_confirmations THEN
           /\ pending_confirmations' = pending_confirmations \ {user_id}
           /\ IF IsConfirmation(text)
              THEN \E fails \in SUBSET ActiveLinks(link_data, link_clock),
                      out \in SaveOutcomes(link_faults) :
                     ApplyAnswer(RevokeAll(fails, out), user_id, text)
              ELSE ApplyAnswer(NoEffect("cancelled"), user_id, text)
           /\ UNCHANGED pending_revokes
       ELSE IF user_id \in pending_revokes THEN
           /\ pending_revokes' = pending_revokes \ {user_id}
           /\ ProcessRevokeRequest("text", user_id, text, strip(text))
           /\ UNCHANGED <<pending_confirmations, link_asked>>
       ELSE
           /\ Apply(NoEffect("none"), "text", user_id, text)
           /\ UNCHANGED <<pending_confirmations, pending_revokes,
                          link_asked>>
    /\ UNCHANGED <<link_clock, link_ticks, join_vars>>

(* time passes between two updates of the link bot *)
LinkTickSteps == {1, LINK_EXPIRE_HOURS * SecondsPerHour}

LinkTick(d) ==
    /\ link_ticks < MaxTicks
    /\ link_ticks' = link_ticks + 1
    /\ link_clock' = link_clock + d
    /\ UNCHANGED <<link_data, pending_confirmations, pending_revokes,
                   link_file, link_faults, link_last, link_asked, join_vars>>

(* The process of the link bot dies while a handler that writes the store
   is under way, and is started again: __init__ loads the registry from the
   file and starts with no pending state.  The handler under way is /link
   or /revoke <link> of an admin; the process dies after the assignment to
   link_data and before open(..., 'w') of save_data, or between that open,
   which empties the file, and the end of json.dump, or after save_data. *)
CrashPoints == {"before_save", "in_save", "after_save"}

InFlight ==
    {generate_invite_link(user, mint, "ok") :
        user \in ADMIN_USER_IDS, mint \in {m \in MintOutcomes : m.ok}}
    \cup {process_revoke_request(link, "ok", "ok") :
              link \in DOMAIN link_data}

FileAtCrash(r, point) ==
    CASE point = "before_save" -> link_file
      [] point = "in_save" -> CorruptFile
      [] OTHER -> r.file

LinkCrash(point) ==
    /\ \E r \in InFlight :
          /\ link_file' = FileAtCrash(r, point)
          /\ link_data' = load_data(FileAtCrash(r, point))
          /\ link_last' = LinkLast("crash", "", <<>>, r.calls, 0, point, 0)
    /\ pending_confirmations' = {}
    /\ pending_revokes' = {}
    /\ link_asked' = EmptyMap
    /\ UNCHANGED <<link_clock, link_ticks, link_faults, join_vars>>

(* the store written after every deletion of the loop *)
FileInLoop_per_item(file, data, done) == FileOf(DeleteLinks(data, done))

(* the store while the loop of lines 262-270 is under way, the links `done`
   revoked and deleted from link_data: the loop holds no save_data, the
   only one follows it at line 272 *)
FileInLoop(file, data, done) == file

(* The process dies while the revoke-all that `user` has confirmed is under
   way, and is started again.  It dies before save_data, with the links
   `done` processed by the loop, or inside or after the save_data that
   follows the loop. *)
LinkCrashRevokeAll(user, done, point) ==
    /\ user \in pending_confirmations
    /\ LET active == ActiveLinks(link_data, link_clock)
           r == RevokeAll({}, "ok")
           file == CASE point = "before_save" ->
                           FileInLoop(link_file, link_data, done)
                     [] point = "in_save" -> CorruptFile
                     [] OTHER -> r.file
       IN  /\ done \subseteq active
           /\ point # "before_save" => done = active
           /\ link_file' = file
           /\ link_data' = load_data(file)
           /\ link_last' = LinkLast("crash", user, Yes,
                                    {[link |-> l, ok |-> TRUE] : l \in done},
                                    0, point, 0)
    /\ pending_confirmations' = {}
    /\ pending_revokes' = {}
    /\ link_asked' = EmptyMap
    /\ UNCHANGED <<link_clock, link_ticks, link_faults, join_vars>>

LinkNext ==
    \/ \E user \in LinkUsers : GenerateInviteLink(user)
    \/ \E user \in LinkUsers : ListLinks(user)
    \/ \E user \in LinkUsers, args \in Args : RevokeLink(user, args)
    \/ \E user \in LinkUsers : RevokeAllLinks(user)
    \/ \E user \in LinkUsers, text \in Texts : HandlePendingActions(user, text)
    \/ \E d \in LinkTickSteps : LinkTick(d)

----------------------------------------------------------------------------
(* main.py: the membership registry and the expiry sweep.  Time is counted
   in days.  remove_expired_members is one action here: it runs to its end
   before the next update or job is taken up.  SpecSweeps, further down,
   takes it step by step. *)

Chats == {"c1", "c2"}
Humans == {"u1"}
Bots == {"b1"}                  \* accounts with user.is_bot
Members == Humans \cup Bots
Senders == {"a1", "n1"}         \* senders of commands; n1 is no admin

is_bot(user) == user \in Bots

(* datetime.isoformat() and datetime.fromisoformat() *)
isoformat(t) == [iso |-> t]
fromisoformat(str) == str.iso

(* if chat_id not in self.join_data: self.join_data[chat_id] = {} *)
EnsureChat(data, chat_id) ==
    IF chat_id \in DOMAIN data THEN data
    ELSE [c \in DOMAIN data \cup {chat_id} |->
            IF c = chat_id THEN EmptyMap ELSE data[c]]

(* the assignment made only for a user without a record *)
StoreJoins_first_wins(data, chat_id, users, join_date) ==
    [data EXCEPT ![chat_id] =
        [u \in DOMAIN data[chat_id] \cup users |->
            IF u \in DOMAIN data[chat_id] THEN data[chat_id][u]
            ELSE join_date]]

(* self.join_data[chat_id][str(user.id)] = join_date, for each user of a
   set, in a chat that has its entry *)
StoreJoins(data, chat_id, users, join_date) ==
    [data EXCEPT ![chat_id] =
        [u \in DOMAIN data[chat_id] \cup users |->
            IF u \in users THEN join_date ELSE data[chat_id][u]]]

(* the deletion applied to a copy of the registry *)
DeleteMembers_on_copy(data, pairs) == data

(* del self.join_data[chat_id][user_id] for every pair of a set *)
DeleteMembers(data, pairs) ==
    [c \in DOMAIN data |->
        [u \in {x \in DOMAIN data[c] : <<c, x>> \notin pairs} |-> data[c][u]]]

(* the summary of a sweep, for the sweep that runs right after it *)
NoSweep == [removed |-> -1, errors |-> -1]

SweepBefore(op) ==
    IF op = "sweep" /\ join_last.op = "sweep"
    THEN [removed |-> join_last.removed, errors |-> join_last.errors]
    ELSE NoSweep

JoinLast(op, sender, results, removed, errors, saves, reply) ==
    [op |-> op, sender |-> sender, before |-> SweepBefore(op),
     results |-> results, removed |-> removed, errors |-> errors,
     saves |-> saves, reply |-> reply]

(* remove_expired_members runs as the daily job of the job queue and as
   part of the handler of /remove_now *)
SweepTasks == {"daily", "manual"}

(* no invocation under way *)
IdleSweep ==
    [pc |-> "idle", threshold |-> 0, chats |-> <<>>, chat |-> "",
     todo |-> <<>>, due |-> 0, removed |-> 0, errors |-> 0]

(* The store that the bot finds when it starts: none, or the one an earlier
   run left behind, with a member who joined 29 days before this run. *)
OldJoinStores ==
    {EmptyMap,
     [c \in {"c1"} |-> [u \in {"u1"} |-> isoformat(1 - RetentionDays)]]}

JoinInit ==
    /\ \E old \in OldJoinStores :
          /\ join_file = IF old = EmptyMap THEN MissingFile ELSE FileOf(old)
          /\ join_data = load_data(join_file)
    /\ join_clock = 0
    /\ join_ticks = 0
    /\ join_last = [op |-> "init", sender |-> "", before |-> NoSweep,
                    results |-> {},
                    removed |-> 0, errors |-> 0, saves |-> 0, reply |-> ""]
    /\ sweeps = [t \in SweepTasks |-> IdleSweep]
    /\ join_seen = EmptyMap

JoinNoEffect(reply) ==
    [data |-> join_data, file |-> join_file, faults |-> join_faults,
     results |-> {}, removed |-> 0, errors |-> 0, saves |-> 0,
     reply |-> reply]

JoinSaved(data, out, reply) ==
    [data |-> data, file |-> save_data(data, join_file, out),
     faults |-> Faults(join_faults, out), results |-> {}, removed |-> 0,
     errors |-> 0, saves |-> 1, reply |-> reply]

(* the users of a new_chat_members message that track_new_member records,
   lines 122-129 *)
NewMembersTracked(new_chat_members) ==
    {u \in new_chat_members : ~is_bot(u)}

(* track_new_member for a chat_member update, lines 95-114: the user is
   recorded when the new status is 'member', whatever user.is_bot says *)
track_chat_member(chat_id, user, status, out) ==
    IF status = "member" THEN
        JoinSaved(StoreJoins(EnsureChat(join_data, chat_id), chat_id,
                             {user},
                             isoformat(join_clock)),
                  out, "tracked")
    ELSE JoinNoEffect("ignored")

(* track_new_member for a new_chat_members message, lines 117-138 *)
track_new_chat_members(chat_id, new_chat_members, out) ==
    JoinSaved(StoreJoins(EnsureChat(join_data, chat_id), chat_id,
                         NewMembersTracked(new_chat_members),
                         isoformat(join_clock)),
              out, "tracked")

(* init_members recording every fetched member *)
InitTracked_with_bots(members) == members

(* the members that init_members records, lines 340-342 *)
InitTracked(members) == {u \in members : ~is_bot(u)}

(* init_members, lines 320-356; `fetch` is the outcome of reading the
   member list from the platform *)
init_members(sender, chat_id, fetch, out) ==
    IF ~is_admin(sender) THEN JoinNoEffect("not_admin")
    ELSE IF ~fetch.ok THEN JoinNoEffect("error")
    ELSE JoinSaved(StoreJoins(EnsureChat(join_data, chat_id), chat_id,
                              InitTracked(fetch.members),
                              isoformat(join_clock)),
                   out, "initialized")

(* the comparison made inclusive *)
IsExpired_inclusive(join_date_str, threshold_date) ==
    fromisoformat(join_date_str) <= threshold_date

(* join_date < threshold_date, line 167 *)
IsExpired(join_date_str, threshold_date) ==
    fromisoformat(join_date_str) < threshold_date

(* the (chat, user) pairs that a sweep at `now` finds expired *)
ExpiredMembers(data, now) ==
    LET threshold_date == now - RetentionDays
    IN  {p \in Chats \X Members :
            /\ p[1] \in DOMAIN data
            /\ p[2] \in DOMAIN data[p[1]]
            /\ IsExpired(data[p[1]][p[2]], threshold_date)}

(* ban_chat_member followed by unban_chat_member, lines 173-181 *)
RemovalOutcomes == {"ok", "ban_failed", "unban_failed"}

(* the deletion placed between the ban and the unban *)
Removed_after_ban(results) == {r \in results : r.out # "ban_failed"}

(* the pairs whose record the sweep deletes: line 184 is reached when both
   platform calls returned *)
Removed(results) == {r \in results : r.out = "ok"}

(* the pairs the sweep counts as errors, lines 195-196 *)
Failed(results) == {r \in results : r.out # "ok"}

(* remove_expired_members, lines 145-214; `outcome` gives the outcome of
   the platform removal of every expired member *)
remove_expired_members(outcome, out) ==
    LET expired == ExpiredMembers(join_data, join_clock)
        results == {[chat |-> p[1], user |-> p[2], out |-> outcome[p]] :
                        p \in expired}
        data == DeleteMembers(join_data,
                              {<<r.chat, r.user>> : r \in Removed(results)})
    IN  [data |-> data, file |-> save_data(data, join_file, out),
         faults |-> Faults(join_faults, out), results |-> results,
         removed |-> Cardinality(Removed(results)),
         errors |-> Cardinality(Failed(results)), saves |-> 1,
         reply |-> "summary"]

JoinAssign(r, op, sender) ==
    /\ join_data' = r.data
    /\ join_file' = r.file
    /\ join_faults' = r.faults
    /\ join_last' = JoinLast(op, sender, r.results, r.removed, r.errors,
                             r.saves, r.reply)
    /\ UNCHANGED <<join_clock, join_ticks, sweeps, link_vars>>

JoinApply(r, op, sender) == JoinAssign(r, op, sender) /\ UNCHANGED join_seen

(* a chat_member update *)
TrackChatMember(chat_id, user, status) ==
    IF status = "member"
    THEN \E out \in SaveOutcomes(join_faults) :
           JoinApply(track_chat_member(chat_id, user, status, out),
                     "chat_member", "")
    ELSE JoinApply(track_chat_member(chat_id, user, status, "ok"),
                   "chat_member", "")

(* a message with new_chat_members *)
TrackNewChatMembers(chat_id, new_chat_members) ==
    \E out \in SaveOutcomes(join_faults) :
        JoinApply(track_new_chat_members(chat_id, new_chat_members, out),
                  "new_chat_members", "")

(* /init_members *)
InitMembers(sender, chat_id) ==
    IF ~is_admin(sender)
    THEN JoinApply(JoinNoEffect("not_admin"), "init_members", sender)
    ELSE \E fetch \in {[ok |-> FALSE, members |-> {}]}
                        \cup {[ok |-> TRUE, members |-> m] :
                                 m \in SUBSET Members} :
           IF ~fetch.ok
           THEN JoinApply(init_members(sender, chat_id, fetch, "ok"),
                          "init_members", sender)
           ELSE \E out \in SaveOutcomes(join_faults) :
                  JoinApply(init_members(sender, chat_id, fetch, out),
                            "init_members", sender)

(* the daily job, main lines 384-386 *)
DailySweep ==
    \E outcome \in [ExpiredMembers(join_data, join_clock) -> RemovalOutcomes],
       out \in SaveOutcomes(join_faults) :
        JoinApply(remove_expired_members(outcome, out), "sweep", "")

(* /remove_now, manual_remove_command lines 263-279 *)
ManualRemoveCommand(sender) ==
    IF ~is_admin(sender)
    THEN JoinApply(JoinNoEffect("not_admin"), "remove_now", sender)
    ELSE \E outcome \in [ExpiredMembers(join_data, join_clock)
                            -> RemovalOutcomes],
            out \in SaveOutcomes(join_faults) :
           JoinApply(remove_expired_members(outcome, out), "sweep", "")

(* time passes between two updates of the member bot; join_last then says
   that no handler ran since *)
JoinTickSteps == {1, RetentionDays}

JoinTick(d) ==
    /\ join_ticks < MaxTicks
    /\ join_ticks' = join_ticks + 1
    /\ join_clock' = join_clock + d
    /\ join_last' = JoinLast("tick", "", {}, 0, 0, 0, "")
    /\ UNCHANGED <<join_data, join_file, join_faults, sweeps, join_seen,
                   link_vars>>

JoinNext ==
    \/ \E chat \in Chats, user \in Members, status \in {"member", "left"} :
          TrackChatMember(chat, user, status)
    \/ \E chat \in Chats, ms \in SUBSET Members \ {{}} :
          TrackNewChatMembers(chat, ms)
    \/ \E sender \in Senders, chat \in Chats : InitMembers(sender, chat)
    \/ DailySweep
    \/ \E sender \in Senders : ManualRemoveCommand(sender)
    \/ \E d \in JoinTickSteps : JoinTick(d)

(* the bot that is not running *)
LinkIdle ==
    /\ link_data = EmptyMap /\ pending_confirmations = {}
    /\ pending_revokes = {} /\ link_file = MissingFile /\ link_clock = 0
    /\ link_ticks = 0 /\ link_faults = 0
    /\ link_last = LinkLast("init", "", <<>>, {}, 0, "", 0)
    /\ link_asked = EmptyMap

JoinIdle ==
    /\ join_data = EmptyMap /\ join_file = MissingFile /\ join_clock = 0
    /\ join_ticks = 0 /\ join_faults = 0
    /\ join_last = [op |-> "init", sender |-> "", before |-> NoSweep,
                    results |-> {}, removed |-> 0, errors |-> 0,
                    saves |-> 0, reply |-> ""]
    /\ sweeps = [t \in SweepTasks |-> IdleSweep]
    /\ join_seen = EmptyMap

(* the link bot, every write of its store succeeding *)
InitLink == LinkInit /\ link_faults = 0 /\ JoinIdle

SpecLink == InitLink /\ [][LinkNext]_vars

(* the link bot with crashes and restarts of its process *)
LinkCrashNext ==
    \/ LinkNext
    \/ \E point \in CrashPoints : LinkCrash(point)
    \/ \E user \in LinkUsers, done \in SUBSET Tokens, point \in CrashPoints :
          LinkCrashRevokeAll(user, done, point)

SpecLinkCrash == InitLink /\ [][LinkCrashNext]_vars

(* the link bot, up to MaxFaults writes of its store failing *)
InitLinkFaults == LinkInit /\ link_faults = MaxFaults /\ JoinIdle

SpecLinkFaults == InitLinkFaults /\ [][LinkNext]_vars

(* the member bot, every write of its store succeeding *)
InitMember == LinkIdle /\ JoinInit /\ join_faults = 0

SpecMember == InitMember /\ [][JoinNext]_vars

(* remove_expired_members step by step.  The job queue runs the daily job
   as a task of its own, and a coroutine gives way to other tasks at its
   awaits only: at the platform removal of an expired member (the ban and the
   unban, taken as one await) and at the debug message that follows it.  The
   handler of /remove_now awaits its sweep, and the next update is taken up
   when the handler has returned.  Dicts are walked in the order ChatOrder
   and MemberOrder. *)
ChatOrder == <<"c1", "c2">>
MemberOrder == <<"u1", "b1">>

(* the bot has no handler under way *)
HandlerFree == sweeps["manual"].pc = "idle"

(* list(self.join_data.items()), line 160: the chats of the registry *)
ChatsOf(data) == SelectSeq(ChatOrder, LAMBDA c : c \in DOMAIN data)

(* list(members.items()), line 164, cut down to the members that line 167
   finds expired *)
Snapshot(data, chat_id, threshold_date) ==
    SelectSeq(MemberOrder,
              LAMBDA u : /\ u \in DOMAIN data[chat_id]
                         /\ IsExpired(data[chat_id][u], threshold_date))

(* the loops given up after the first chat that holds an expired member *)
NextWork_first_chat(chats, data, threshold_date) ==
    IF chats = <<>> THEN [chats |-> <<>>, chat |-> "", todo |-> <<>>]
    ELSE [chats |-> <<>>, chat |-> Head(chats),
          todo |-> Snapshot(data, Head(chats), threshold_date)]

(* the loops of lines 160-167 up to the next expired member: the chat it is
   found in, the expired members of that chat and the chats still to come *)
RECURSIVE NextWork(_, _, _)
NextWork(chats, data, threshold_date) ==
    IF chats = <<>> THEN [chats |-> <<>>, chat |-> "", todo |-> <<>>]
    ELSE LET todo == Snapshot(data, Head(chats), threshold_date)
         IN  IF todo # <<>>
             THEN [chats |-> Tail(chats), chat |-> Head(chats),
                   todo |-> todo]
             ELSE NextWork(Tail(chats), data, threshold_date)

(* lines 204-210: the store is written and the summary sent *)
SweepFinish(task, removed, errors, out) ==
    /\ join_file' = save_data(join_data, join_file, out)
    /\ join_faults' = Faults(join_faults, out)
    /\ join_last' = JoinLast("sweep", task, {}, removed, errors, 1,
                             "summary")
    /\ sweeps' = [sweeps EXCEPT ![task] = IdleSweep]
    /\ UNCHANGED join_data

(* the invocation goes on to the next expired member, or ends *)
SweepContinue(task, rec, out) ==
    IF rec.todo # <<>>
    THEN /\ sweeps' = [sweeps EXCEPT ![task] = [rec EXCEPT !.pc = "ban"]]
         /\ UNCHANGED <<join_data, join_file, join_faults, join_last>>
    ELSE LET w == NextWork(rec.chats, join_data, rec.threshold)
         IN  IF w.todo # <<>>
             THEN /\ sweeps' = [sweeps EXCEPT ![task] =
                                   [rec EXCEPT !.pc = "ban",
                                               !.chats = w.chats,
                                               !.chat = w.chat,
                                               !.todo = w.todo]]
                  /\ UNCHANGED <<join_data, join_file, join_faults,
                                 join_last>>
             ELSE SweepFinish(task, rec.removed, rec.errors, out)

(* remove_expired_members is entered, lines 147-160 *)
SweepBegin(task) ==
    /\ sweeps[task].pc = "idle"
    /\ LET threshold_date == join_clock - RetentionDays
           rec == [IdleSweep EXCEPT
                      !.threshold = threshold_date,
                      !.chats = ChatsOf(join_data),
                      !.due = Cardinality(ExpiredMembers(join_data,
                                                         join_clock))]
       IN  \E out \in SaveOutcomes(join_faults) :
               SweepContinue(task, rec, out)
    /\ UNCHANGED <<join_clock, join_ticks, join_seen, link_vars>>

(* the job queue starts the daily job, main lines 384-386 *)
DailyBegin == SweepBegin("daily")

(* /remove_now of an admin reaches line 277 *)
ManualBegin(sender) ==
    HandlerFree /\ is_admin(sender) /\ SweepBegin("manual")

(* the platform removal of the member at hand has ended, lines 171-201; a
   record that is gone makes line 184 raise KeyError, which only the handler
   of line 212 catches *)
SweepRemoval(task, outcome) ==
    /\ sweeps[task].pc = "ban"
    /\ LET rec == sweeps[task]
           chat_id == rec.chat
           user_id == Head(rec.todo)
       IN  IF outcome # "ok" THEN
               /\ sweeps' = [sweeps EXCEPT ![task] =
                                [rec EXCEPT !.pc = "sent",
                                            !.todo = Tail(rec.todo),
                                            !.errors = rec.errors + 1]]
               /\ UNCHANGED <<join_data, join_last>>
           ELSE IF user_id \in DOMAIN join_data[chat_id] THEN
               /\ join_data' = DeleteMembers(join_data,
                                             {<<chat_id, user_id>>})
               /\ sweeps' = [sweeps EXCEPT ![task] =
                                [rec EXCEPT !.pc = "sent",
                                            !.todo = Tail(rec.todo),
                                            !.removed = rec.removed + 1]]
               /\ UNCHANGED join_last
           ELSE
               /\ sweeps' = [sweeps EXCEPT ![task] = IdleSweep]
               /\ join_last' = JoinLast("sweep", task, {}, rec.removed,
                                        rec.errors, 0, "job_error")
               /\ UNCHANGED join_data
    /\ UNCHANGED <<join_file, join_faults, join_clock, join_ticks, join_seen,
                   link_vars>>

(* the debug message about the member at hand is sent, lines 190 and 199 *)
SweepAdvance(task) ==
    /\ sweeps[task].pc = "sent"
    /\ \E out \in SaveOutcomes(join_faults) :
          SweepContinue(task, sweeps[task], out)
    /\ UNCHANGED <<join_clock, join_ticks, join_seen, link_vars>>

SweepsNext ==
    \/ DailyBegin
    \/ \E sender \in Senders : ManualBegin(sender)
    \/ \E task \in SweepTasks, outcome \in RemovalOutcomes :
          SweepRemoval(task, outcome)
    \/ \E task \in SweepTasks : SweepAdvance(task)
    \/ \E chat \in Chats, user \in Members, status \in {"member", "left"} :
          HandlerFree /\ TrackChatMember(chat, user, status)

(* The store of a bot that starts while its members of two chats are due:
   they joined a day more than the retention ago. *)
DueStore ==
    [c \in Chats |-> [u \in Humans |-> isoformat(0 - RetentionDays - 1)]]

InitSweeps ==
    /\ LinkIdle
    /\ join_data = DueStore /\ join_file = FileOf(DueStore)
    /\ join_clock = 0 /\ join_ticks = 0 /\ join_faults = 0
    /\ join_last = [op |-> "init", sender |-> "", before |-> NoSweep,
                    results |-> {}, removed |-> 0, errors |-> 0,
                    saves |-> 0, reply |-> ""]
    /\ sweeps = [t \in SweepTasks |-> IdleSweep]
    /\ join_seen = EmptyMap

SpecSweeps == InitSweeps /\ [][SweepsNext]_vars

(* The sweeps alone, for what becomes of an expired record in the long run:
   no join event renews a record.  The bot starts with a store in which a
   member of a chat has no record, one that is due or one of today. *)
RetryStores ==
    {[c \in Chats |->
        [u \in {m \in Members : age[<<c, m>>] # "none"} |->
            isoformat(IF age[<<c, u>>] = "due" THEN 0 - RetentionDays - 1
                      ELSE 0)]] :
        age \in {a \in [Chats \X Members -> {"none", "due", "new"}] :
                    a[<<"c1", "b1">>] # "new" /\ a[<<"c2", "b1">>] = "none"}}

InitRetry ==
    /\ LinkIdle
    /\ \E store \in RetryStores :
          join_data = store /\ join_file = FileOf(store)
    /\ join_clock = 0 /\ join_ticks = 0 /\ join_faults = 0
    /\ join_last = [op |-> "init", sender |-> "", before |-> NoSweep,
                    results |-> {}, removed |-> 0, errors |-> 0,
                    saves |-> 0, reply |-> ""]
    /\ sweeps = [t \in SweepTasks |-> IdleSweep]
    /\ join_seen = EmptyMap

RetryNext ==
    \/ DailyBegin
    \/ \E sender \in Senders : ManualBegin(sender)
    \/ \E task \in SweepTasks, outcome \in RemovalOutcomes :
          SweepRemoval(task, outcome)
    \/ \E task \in SweepTasks : SweepAdvance(task)

(* the invocation of `task` awaits the platform removal of the member of
   pair p *)
Attempting(task, p) ==
    /\ sweeps[task].pc = "ban"
    /\ sweeps[task].chat = p[1]
    /\ Head(sweeps[task].todo) = p[2]

(* the ban and the unban of the member of pair p both succeed *)
RemovalSucceeds(p) ==
    \E task \in SweepTasks : Attempting(task, p) /\ SweepRemoval(task, "ok")

(* The job queue starts the daily job again and again (run_daily, main lines
   384-386), an awaited platform call returns or raises, and the event loop
   resumes the coroutine that waited for it.  That the platform removal of a
   member succeeds at some time, if it is attempted again and again, is
   assumed of the platform. *)
RetryFairness ==
    /\ WF_vars(DailyBegin)
    /\ \A task \in SweepTasks :
          /\ WF_vars(\E outcome \in RemovalOutcomes :
                        SweepRemoval(task, outcome))
          /\ WF_vars(SweepAdvance(task))
    /\ \A p \in Chats \X Members : SF_vars(RemovalSucceeds(p))

SpecRetry == InitRetry /\ [][RetryNext]_vars /\ RetryFairness

(* The join events of the member bot, with the history of the events of
   the users that are no bots: for every (chat, user) pair the time of its
   first and of its latest join event. *)
Seen(seen, pairs, now) ==
    [p \in DOMAIN seen \cup pairs |->
        IF p \in pairs
        THEN [first |-> IF p \in DOMAIN seen THEN seen[p].first ELSE now,
              last |-> now]
        ELSE seen[p]]

(* a chat_member update *)
SeenChatMember(chat_id, user, status) ==
    /\ JoinAssign(track_chat_member(chat_id, user, status, "ok"),
                  "chat_member", "")
    /\ join_seen' = IF status = "member" /\ ~is_bot(user)
                    THEN Seen(join_seen, {<<chat_id, user>>}, join_clock)
                    ELSE join_seen

(* a message with new_chat_members *)
SeenNewChatMembers(chat_id, new_chat_members) ==
    /\ JoinAssign(track_new_chat_members(chat_id, new_chat_members, "ok"),
                  "new_chat_members", "")
    /\ join_seen' = Seen(join_seen,
                         {chat_id} \X {u \in new_chat_members : ~is_bot(u)},
                         join_clock)

JoinsNext ==
    \/ \E chat \in Chats, user \in Members, status \in {"member", "left"} :
          SeenChatMember(chat, user, status)
    \/ \E chat \in Chats, ms \in SUBSET Members \ {{}} :
          SeenNewChatMembers(chat, ms)
    \/ \E d \in JoinTickSteps : JoinTick(d)

SpecJoins == InitMember /\ [][JoinsNext]_vars

(* The commands of both bots.  The bots share no state, so the steps of one
   commute with the steps of the other; a run of this specification follows
   the updates of the link bot or the commands of the member bot. *)
LinkAtInit == link_last.op = "init" /\ link_ticks = 0

JoinAtInit == join_last.op = "init" /\ join_ticks = 0

JoinCommands ==
    \/ \E sender \in Senders, chat \in Chats : InitMembers(sender, chat)
    \/ \E sender \in Senders : ManualRemoveCommand(sender)
    \/ \E d \in JoinTickSteps : JoinTick(d)

CommandsNext ==
    \/ JoinAtInit /\ LinkNext
    \/ LinkAtInit /\ JoinCommands

InitCommands == LinkInit /\ link_faults = 0 /\ JoinInit /\ join_faults = 0

SpecCommands == InitCommands /\ [][CommandsNext]_vars

(* Both bots with up to MaxFaults writes of their store failing; a run is a
   run of the one bot or of the other.  The join events of the member bot
   are those of the users that are no bots. *)
JoinFaultsNext ==
    \/ \E chat \in Chats, user \in Humans, status \in {"member", "left"} :
          TrackChatMember(chat, user, status)
    \/ \E chat \in Chats, ms \in SUBSET Humans \ {{}} :
          TrackNewChatMembers(chat, ms)
    \/ \E sender \in Senders, chat \in Chats : InitMembers(sender, chat)
    \/ DailySweep
    \/ \E sender \in Senders : ManualRemoveCommand(sender)
    \/ \E d \in JoinTickSteps : JoinTick(d)

FaultsNext ==
    \/ JoinIdle /\ LinkNext
    \/ LinkIdle /\ JoinFaultsNext

InitFaults ==
    \/ LinkInit /\ link_faults = MaxFaults /\ JoinIdle
    \/ LinkIdle /\ JoinInit /\ join_faults = MaxFaults

SpecFaults == InitFaults /\ [][FaultsNext]_vars

----------------------------------------------------------------------------
(* Claims about the link bot.  A step of a handler is a step that leaves the
   clock alone; link_last' names the handler and its inputs. *)

LinkHandlerStep == link_ticks' = link_ticks

(* the step passes `link` to process_revoke_request: /revoke <link> by an
   admin, or the text awaited by a pending revoke *)
RevokeRequested(link) ==
    /\ LinkHandlerStep
    /\ \/ /\ link_last'.op = "revoke"
          /\ link_last'.user \in ADMIN_USER_IDS
          /\ link_last'.text = link
       \/ /\ link_last'.op = "text"
          /\ link_last'.user \notin pending_confirmations
          /\ link_last'.user \in pending_revokes
          /\ strip(link_last'.text) = link

(* the step executes the confirmed revoke-all *)
RevokeAllExecuted == LinkHandlerStep /\ link_last'.reply = "revoked_all"

(* the links of the registry that are active at the clock's time *)
ActiveNow ==
    {l \in DOMAIN link_data :
        link_data[l].expires_at > link_clock
            /\ link_data[l].uses < link_data[l].max_uses}

SameRecords(keys) ==
    \A k \in keys : k \in DOMAIN link_data' /\ link_data'[k] = link_data[k]

(* C1: revoking a token of the registry removes it from link_data and saves
   the registry (the file holds the new registry unless the write failed),
   whether the platform call succeeded or failed; every other record stays
   as it was. *)
C1_RevokePresentRemoves ==
    [][\A link \in DOMAIN link_data :
          RevokeRequested(link) =>
              /\ DOMAIN link_data' = DOMAIN link_data \ {link}
              /\ SameRecords(DOMAIN link_data \ {link})
              /\ link_last'.saves = 1
              /\ (link_faults' = link_faults
                    => link_file' = [state |-> "ok", data |-> link_data'])
              /\ link_last'.reply = "revoked"]_vars

(* a token was revoked although the platform call failed, and other records
   are still there *)
C1_Witness ==
    /\ link_last.reply = "revoked"
    /\ \E c \in link_last.calls : ~c.ok
    /\ DOMAIN link_data # {}
    /\ link_file = [state |-> "ok", data |-> link_data]

(* C2: the confirmed revoke-all deletes exactly the links that are active at
   that time and leaves every inactive record untouched, whichever of the
   platform calls fail. *)
C2_RevokeAllDeletesActive ==
    [][RevokeAllExecuted =>
          /\ DOMAIN link_data' = DOMAIN link_data \ ActiveNow
          /\ SameRecords(DOMAIN link_data \ ActiveNow)]_vars

(* two active links were deleted, one of them with a failed platform call,
   and an inactive record is left *)
C2_Witness ==
    /\ link_last.reply = "revoked_all"
    /\ Cardinality(link_last.calls) = 2
    /\ \E c \in link_last.calls : ~c.ok
    /\ \E c \in link_last.calls : c.ok
    /\ DOMAIN link_data # {}

(* C3 as claimed: the count that revoke-all reports is the number of links
   it deleted. *)
C3_CountIsProcessed ==
    [][RevokeAllExecuted =>
          link_last'.count
              = Cardinality(DOMAIN link_data \ DOMAIN link_data')]_vars

(* C3 amended: the count that revoke-all reports is the number of deleted
   links whose platform revocation succeeded, N - k. *)
C3_CountIsRemoteSuccesses ==
    [][RevokeAllExecuted =>
          /\ {c.link : c \in link_last'.calls}
                 = DOMAIN link_data \ DOMAIN link_data'
          /\ link_last'.count
                 = Cardinality(DOMAIN link_data \ DOMAIN link_data')
                     - Cardinality({c \in link_last'.calls : ~c.ok})]_vars

(* two links processed, one platform call failed, 1 reported *)
C3_Witness ==
    /\ link_last.reply = "revoked_all"
    /\ Cardinality(link_last.calls) = 2
    /\ Cardinality({c \in link_last.calls : ~c.ok}) = 1
    /\ link_last.count = 1

(* C4: no user awaits a revoke-all confirmation and a revoke target at the
   same time. *)
C4_OnePendingPerUser == pending_confirmations \cap pending_revokes = {}

(* C5: a text input of a user leaves that user with no pending action, and
   the text input of a user with no pending action changes neither the
   registry nor the pending states and calls the platform not at all. *)
C5_TextConsumesAllPending ==
    [][LinkHandlerStep /\ link_last'.op = "text" =>
          /\ link_last'.user \notin pending_confirmations'
          /\ link_last'.user \notin pending_revokes'
          /\ (link_last'.user \notin pending_confirmations \cup pending_revokes
                => /\ link_data' = link_data
                   /\ link_file' = link_file
                   /\ pending_confirmations' = pending_confirmations
                   /\ pending_revokes' = pending_revokes
                   /\ link_last'.calls = {})]_vars

IsYesIgnoringCase(text) ==
    /\ Len(text) = 3
    /\ text[1] \in {"y", "Y"}
    /\ text[2] \in {"e", "E"}
    /\ text[3] \in {"s", "S"}

(* C6: the text input of a user who awaits the confirmation deletes the
   pending confirmation; revoke-all is executed iff the text is "yes" in any
   letter case; any other text deletes no record, calls the platform not at
   all and writes nothing. *)
C6_ConfirmationConsumed ==
    [][LinkHandlerStep /\ link_last'.op = "text"
          /\ link_last'.user \in pending_confirmations =>
          /\ link_last'.user \notin pending_confirmations'
          /\ (link_last'.reply = "revoked_all"
                <=> IsYesIgnoringCase(link_last'.text))
          /\ (~IsYesIgnoringCase(link_last'.text) =>
                /\ link_data' = link_data
                /\ link_file' = link_file
                /\ link_last'.calls = {}
                /\ link_last'.saves = 0)]_vars

(* " yes" cancelled a revoke-all while a link was active *)
C6_Witness ==
    /\ link_last.reply = "cancelled"
    /\ link_last.text = <<" ", "y", "e", "s">>
    /\ ActiveNow # {}
    /\ link_last.user \notin pending_confirmations

(* C11: /link by an admin whose mint call succeeded inserts one record, for
   the token the platform issued, with uses = 0 and max_uses =
   LINK_MEMBER_LIMIT, keeps every other record and writes the registry to
   the store; /link by anyone else, or with a failed mint call, leaves the
   registry and the store as they were. *)
C11_IssueRecordsAfterMint ==
    [][LinkHandlerStep /\ link_last'.op = "link" =>
          IF link_last'.user \in ADMIN_USER_IDS /\ link_last'.text # <<>>
          THEN /\ link_last'.text \notin DOMAIN link_data
               /\ DOMAIN link_data' = DOMAIN link_data \cup {link_last'.text}
               /\ link_data'[link_last'.text].uses = 0
               /\ link_data'[link_last'.text].max_uses = LINK_MEMBER_LIMIT
               /\ SameRecords(DOMAIN link_data)
               /\ link_last'.saves = 1
               /\ link_file' = [state |-> "ok", data |-> link_data']
          ELSE /\ link_data' = link_data
               /\ link_file' = link_file
               /\ link_last'.saves = 0]_vars

(* a link was issued next to an older record, and the store holds both *)
C11_Witness ==
    /\ link_last.op = "link"
    /\ link_last.reply = "generated"
    /\ link_last.text \in DOMAIN link_data
    /\ link_data[link_last.text].uses = 0
    /\ Cardinality(DOMAIN link_data) = 2
    /\ link_file = [state |-> "ok", data |-> link_data]

(* the step hands a token to process_revoke_request: /revoke with an
   argument by an admin, or the text awaited by a pending revoke *)
RevokePassed ==
    /\ LinkHandlerStep
    /\ \/ /\ link_last'.op = "revoke"
          /\ link_last'.user \in ADMIN_USER_IDS
          /\ link_last'.text # <<>>
       \/ /\ link_last'.op = "text"
          /\ link_last'.user \notin pending_confirmations
          /\ link_last'.user \in pending_revokes

(* the token handed over: the argument as it is, the text stripped *)
RevokeArg ==
    IF link_last'.op = "revoke" THEN link_last'.text
    ELSE strip(link_last'.text)

(* C12: revoking a token that the registry does not hold reports not-found,
   leaves the registry and the store as they were, calls the platform not at
   all and does not write the store. *)
C12_RevokeAbsentNoOp ==
    [][RevokePassed /\ RevokeArg \notin DOMAIN link_data =>
          /\ link_last'.reply = "not_found"
          /\ link_data' = link_data
          /\ link_file' = link_file
          /\ link_last'.calls = {}
          /\ link_last'.saves = 0]_vars

(* an unknown token was sent in answer to /revoke while the registry held
   links *)
C12_Witness ==
    /\ link_last.op = "text"
    /\ link_last.reply = "not_found"
    /\ link_last.text = <<"t", "9">>
    /\ DOMAIN link_data # {}

(* C13: the text input of a user who awaits a revoke target deletes the
   pending state, is stripped and revoked as a token, and leaves the user
   with no pending state, whether the token was found or not. *)
C13_TargetConsumed ==
    [][LinkHandlerStep /\ link_last'.op = "text"
          /\ link_last'.user \in pending_revokes =>
          /\ link_last'.user \notin pending_revokes'
          /\ link_last'.user \notin pending_confirmations'
          /\ strip(link_last'.text) \notin DOMAIN link_data'
          /\ link_last'.reply
                = IF strip(link_last'.text) \in DOMAIN link_data
                  THEN "revoked" ELSE "not_found"]_vars

(* C15: /list_links by an admin reports exactly the links of the registry
   with expires_at > now and uses < max_uses, and no listing changes the
   registry or the store. *)
C15_ListIsActiveSet ==
    [][LinkHandlerStep /\ link_last'.op = "list" =>
          /\ (link_last'.user \in ADMIN_USER_IDS
                => link_last'.listed = ActiveNow)
          /\ link_data' = link_data
          /\ link_file' = link_file
          /\ link_last'.calls = {}]_vars

(* a listing that holds a fresh link (expires_at = now + 3600, uses 0 of 1)
   and leaves out a link with expires_at = now - 1 *)
C15_Witness ==
    /\ link_last.op = "list"
    /\ \E l \in link_last.listed :
          /\ link_data[l].expires_at = link_clock + 3600
          /\ link_data[l].uses = 0
          /\ link_data[l].max_uses = 1
    /\ \E l \in DOMAIN link_data \ link_last.listed :
          /\ link_data[l].expires_at = link_clock - 1
          /\ link_data[l].uses < link_data[l].max_uses

----------------------------------------------------------------------------
(* Claims about the member bot.  The clock's advance resets join_last, so
   join_last.op = "sweep" says that a sweep was the last thing to happen. *)

SweepStep == join_ticks' = join_ticks /\ join_last'.op = "sweep"

(* the records of the registry, as (chat, user) pairs *)
Records(data) ==
    {p \in Chats \X Members : p[1] \in DOMAIN data /\ p[2] \in DOMAIN data[p[1]]}

JoinedAt(data, p) == data[p[1]][p[2]].iso

(* the records that are older than the retention at the clock's time *)
ExpiredNow ==
    {p \in Records(join_data) :
        join_clock - JoinedAt(join_data, p) > RetentionDays}

Pairs(results) == {<<r.chat, r.user>> : r \in results}

(* C7: a sweep deletes a member's record iff the ban and the unban of that
   member both succeeded; a member whose ban or unban failed keeps the
   record with its joinedAt, counts as one error, and does not keep the
   sweep from the other expired members. *)
C7_DeletedIffRemoved ==
    [][SweepStep =>
          /\ \A p \in Records(join_data) :
                p \notin Records(join_data')
                    <=> \E r \in join_last'.results :
                           <<r.chat, r.user>> = p /\ r.out = "ok"
          /\ \A r \in join_last'.results :
                r.out # "ok" =>
                    /\ <<r.chat, r.user>> \in Records(join_data')
                    /\ JoinedAt(join_data', <<r.chat, r.user>>)
                          = JoinedAt(join_data, <<r.chat, r.user>>)
          /\ join_last'.errors
                = Cardinality({r \in join_last'.results : r.out # "ok"})
          /\ join_last'.removed
                = Cardinality({r \in join_last'.results : r.out = "ok"})
          /\ Pairs(join_last'.results) = ExpiredNow]_vars

(* a sweep removed one member, failed on the ban of a second and on the
   unban of a third, whose records are still there *)
C7_Witness ==
    /\ join_last.op = "sweep"
    /\ join_last.removed = 1
    /\ join_last.errors = 2
    /\ \E r \in join_last.results :
          r.out = "ban_failed" /\ <<r.chat, r.user>> \in Records(join_data)
    /\ \E r \in join_last.results :
          r.out = "unban_failed" /\ <<r.chat, r.user>> \in Records(join_data)

(* C8: a sweep attempts the removal of exactly the records, of all chats,
   with now - joinedAt > 30 days, and leaves every other record in the
   registry with its joinedAt. *)
C8_AttemptsExactlyExpired ==
    [][SweepStep =>
          /\ Pairs(join_last'.results) = ExpiredNow
          /\ \A p \in Records(join_data) \ ExpiredNow :
                /\ p \in Records(join_data')
                /\ JoinedAt(join_data', p) = JoinedAt(join_data, p)]_vars

(* a sweep attempted (in vain) to remove a member who joined 31 days ago,
   in one chat, and passed over a member who joined exactly 30 days ago,
   in another *)
C8_Witness ==
    /\ join_last.op = "sweep"
    /\ \E r \in join_last.results :
          /\ <<r.chat, r.user>> \in Records(join_data)
          /\ join_clock - JoinedAt(join_data, <<r.chat, r.user>>)
                = RetentionDays + 1
          /\ \E p \in Records(join_data) \ Pairs(join_last.results) :
                /\ p[1] # r.chat
                /\ join_clock - JoinedAt(join_data, p) = RetentionDays

(* the sweep that ran last came right after another sweep *)
SecondSweep == join_last.op = "sweep" /\ join_last.before # NoSweep

(* C9 as claimed: the second of two sweeps in immediate succession removes
   no member and counts no error. *)
C9_SecondSweepIdle ==
    SecondSweep => join_last.removed = 0 /\ join_last.errors = 0

(* C9 amended: the second of two sweeps in immediate succession attempts
   the members whose removal failed in the first, and no other: its
   removals and errors add up to the errors of the first, so it removes no
   member and counts no error when the first counted no error. *)
C9_SecondSweepRetriesFailed ==
    SecondSweep =>
        /\ join_last.removed + join_last.errors = join_last.before.errors
        /\ (join_last.before.errors = 0 =>
               join_last.removed = 0 /\ join_last.errors = 0)

(* a second sweep with nothing to do, after a first that removed members
   without an error *)
C9_Witness ==
    /\ SecondSweep
    /\ join_last.before.removed = 2
    /\ join_last.before.errors = 0
    /\ join_last.removed = 0
    /\ join_last.errors = 0

(* the registry that the store file holds *)
Committed == load_data(link_file)

(* C17: when the process dies during a handler and is started again, the
   registry it loads holds every record of the store as it was before that
   handler, but for the record that the handler under way was deleting. *)
C17_CrashKeepsCommitted ==
    [][LinkHandlerStep /\ link_last'.op = "crash" =>
          \A k \in DOMAIN Committed :
              \/ k \in {c.link : c \in link_last'.calls}
              \/ k \in DOMAIN link_data' /\ link_data'[k] = Committed[k]]_vars

(* the step is /init_members by an admin in `chat`, with the platform
   answering `fetch` and the store written *)
InitMembersStep(chat, fetch) ==
    \E sender \in ADMIN_USER_IDS :
        JoinApply(init_members(sender, chat, fetch, "ok"), "init_members",
                  sender)

(* C20: /init_members by an admin in a chat, once the member list was
   fetched, gives every fetched member that is no bot the joinedAt "now",
   also the members that had an older one, adds no other record, leaves
   every record of another chat or of a user outside the list as it was,
   and writes the registry to the store; when the fetch fails the registry
   and the store stay as they were. *)
C20_InitMembersSeeds ==
    [][\A chat \in Chats, m \in SUBSET Members :
          /\ InitMembersStep(chat, [ok |-> TRUE, members |-> m]) =>
                /\ \A u \in m \ Bots :
                      /\ <<chat, u>> \in Records(join_data')
                      /\ JoinedAt(join_data', <<chat, u>>) = join_clock
                /\ Records(join_data')
                      = Records(join_data) \cup ({chat} \X (m \ Bots))
                /\ \A p \in Records(join_data) :
                      p[1] # chat \/ p[2] \notin m \ Bots =>
                          JoinedAt(join_data', p) = JoinedAt(join_data, p)
                /\ join_file' = [state |-> "ok", data |-> join_data']
          /\ InitMembersStep(chat, [ok |-> FALSE, members |-> {}]) =>
                join_data' = join_data /\ join_file' = join_file]_vars

(* /init_members has renewed the record of a member of one chat, a day after
   the member was recorded in both chats; the record of the other chat has
   kept its joinedAt *)
C20_Witness ==
    /\ join_last.op = "init_members"
    /\ join_last.reply = "initialized"
    /\ join_clock = 1
    /\ <<"c1", "u1">> \in Records(join_data)
    /\ <<"c2", "u1">> \in Records(join_data)
    /\ JoinedAt(join_data, <<"c1", "u1">>) = 1
    /\ JoinedAt(join_data, <<"c2", "u1">>) = 0
    /\ join_file = [state |-> "ok", data |-> join_data]

(* C19: an update of a user outside ADMIN_USER_IDS changes neither the link
   registry nor its store nor the pending states and calls the platform not
   at all; the pending states hold admins only; /remove_now and
   /init_members of such a user run no sweep and change neither the
   membership registry nor its store. *)
C19_OnlyAdminsAct ==
    [][/\ LinkHandlerStep /\ link_last'.user \notin ADMIN_USER_IDS =>
             /\ link_data' = link_data
             /\ link_file' = link_file
             /\ pending_confirmations' = pending_confirmations
             /\ pending_revokes' = pending_revokes
             /\ link_last'.calls = {}
             /\ link_last'.listed = {}
             /\ link_last'.saves = 0
             /\ link_last'.reply \in {"", "not_admin", "none"}
       /\ pending_confirmations' \subseteq ADMIN_USER_IDS
       /\ pending_revokes' \subseteq ADMIN_USER_IDS
       /\ join_ticks' = join_ticks
             /\ join_last'.op \in {"remove_now", "init_members"}
             /\ join_last'.sender \notin ADMIN_USER_IDS =>
             /\ join_data' = join_data
             /\ join_file' = join_file
             /\ join_last'.results = {}
             /\ join_last'.saves = 0
             /\ join_last'.reply = "not_admin"]_vars

(* a user who is no admin has sent "yes" while an admin's confirmation was
   pending and a link was active: both are still there *)
C19_Witness ==
    /\ link_last.op = "text"
    /\ link_last.user \notin ADMIN_USER_IDS
    /\ link_last.text = Yes
    /\ link_last.reply = "none"
    /\ pending_confirmations # {}
    /\ ActiveNow # {}

(* C14: after any sequence of join events every (chat, user) pair that had
   a join event has one record, and its joinedAt is the time of the latest
   join event of the pair; so two join events at t1 < t2 leave the record
   with t2. *)
C14_LastJoinWins ==
    \A p \in DOMAIN join_seen :
        /\ p \in Records(join_data)
        /\ JoinedAt(join_data, p) = join_seen[p].last

(* a pair with join events at t1 < t2 whose record holds t2, next to a pair
   with an older record *)
C14_Witness ==
    \E p \in DOMAIN join_seen, q \in Records(join_data) :
        /\ join_seen[p].first < join_seen[p].last
        /\ JoinedAt(join_data, p) = join_seen[p].last
        /\ q # p
        /\ JoinedAt(join_data, q) < join_seen[p].first

(* the step ends an invocation of remove_expired_members by `task` *)
SweepReturns(task) ==
    /\ join_last'.op = "sweep"
    /\ join_last'.sender = task
    /\ sweeps'[task].pc = "idle"
    /\ sweeps[task].pc # "idle" \/ join_last' # join_last

(* the records that were expired when the invocation that ends was entered *)
DueOf(task) ==
    IF sweeps[task].pc = "idle" THEN Cardinality(ExpiredNow)
    ELSE sweeps[task].due

(* C16: when a join handler that wrote the registry has returned, or a sweep
   that deleted a record, and its save did not fail, the store holds the
   registry as it is in memory. *)
C16_WriteThrough ==
    [][/\ \A task \in SweepTasks :
             SweepReturns(task) /\ join_last'.removed > 0
                 /\ join_faults' = join_faults =>
                 join_file' = [state |-> "ok", data |-> join_data']
       /\ join_last'.op = "chat_member" /\ join_data' # join_data
             /\ sweeps' = sweeps /\ join_faults' = join_faults =>
             join_file' = [state |-> "ok", data |-> join_data']]_vars

(* C18: every invocation of the sweep ends with a summary, and the removals
   and errors of the summary add up to the number of records that were
   expired when the invocation was entered. *)
C18_SweepSummarizesAll ==
    [][\A task \in SweepTasks :
          SweepReturns(task) =>
              /\ join_last'.reply = "summary"
              /\ join_last'.removed + join_last'.errors = DueOf(task)]_vars

(* C10: no bot account has a record in the membership registry. *)
C10_NoBotRecorded ==
    \A c \in DOMAIN join_data : DOMAIN join_data[c] \cap Bots = {}

(* C21: a sweep deletes no record whose stored joinedAt is within the
   retention at the time of the deletion; so a join that a handler recorded
   while the sweep was under way keeps its record. *)
C21_SweepSparesFreshJoin ==
    [][\A p \in Records(join_data) \ Records(join_data') :
          join_clock - JoinedAt(join_data, p) > RetentionDays]_vars

(* the invocation of `task` awaits the platform removal of a member whose
   record is no longer in the registry *)
AtAbsentRecord(task) ==
    /\ sweeps[task].pc = "ban"
    /\ Head(sweeps[task].todo) \notin DOMAIN join_data[sweeps[task].chat]

(* C22: the removal of a record that is already absent is a no-op: the
   invocation that finds the record of its member gone (deleted by the
   sweep that overlaps it) leaves the registry as it is and goes on to its
   remaining members, and every invocation ends with the store written and
   a summary. *)
C22_AbsentRemovalNoOp ==
    [][\A task \in SweepTasks :
          /\ AtAbsentRecord(task) /\ sweeps'[task] # sweeps[task] =>
                /\ sweeps'[task].pc = "sent"
                /\ join_data' = join_data
          /\ SweepReturns(task) =>
                /\ join_last'.saves = 1
                /\ join_last'.reply = "summary"]_vars

(* C23: a record that is expired is deleted in the end, when the sweeps keep
   running and the platform removal of its member succeeds at some time; a
   record is deleted only in the step in which the platform removal of its
   member has succeeded; and a sweep that has come to its summary has
   attempted every record that is still expired, so the records it failed
   on are there for the next sweep. *)
C23_FailedRemovalRetried ==
    /\ \A p \in Chats \X Members :
          (p \in ExpiredNow) ~> (p \notin Records(join_data))
    /\ [][\A p \in Records(join_data) \ Records(join_data') :
             \E task \in SweepTasks :
                 /\ Attempting(task, p)
                 /\ sweeps'[task].removed = sweeps[task].removed + 1
                 /\ sweeps'[task].errors = sweeps[task].errors]_vars
    /\ [][\A task \in SweepTasks :
             SweepReturns(task) /\ join_last'.reply = "summary" =>
                 Cardinality(ExpiredNow') <= join_last'.errors]_vars

(* a sweep has failed on a member and come to its summary, and a later
   sweep has then removed that member: no record is expired any more *)
C23_Witness ==
    /\ join_last.op = "sweep"
    /\ join_last.reply = "summary"
    /\ join_last.before # NoSweep
    /\ join_last.before.errors > 0
    /\ join_last.removed > 0
    /\ ExpiredNow = {}

(* C24: /revoke_all by an admin adds that admin to the pending
   confirmations iff a link is active at that time; with no active link it
   leaves both pending states as they were; in either case it leaves the
   registry and the store as they were and calls the platform not at all. *)
C24_RevokeAllAsksIffActive ==
    [][LinkHandlerStep /\ link_last'.op = "revoke_all"
          /\ link_last'.user \in ADMIN_USER_IDS =>
          /\ IF ActiveNow # {}
             THEN /\ pending_confirmations'
                        = pending_confirmations \cup {link_last'.user}
                  /\ link_last'.reply = "ask_confirmation"
                  /\ link_last'.count = Cardinality(ActiveNow)
             ELSE /\ pending_confirmations' = pending_confirmations
                  /\ link_last'.reply = "nothing_to_revoke"
          /\ pending_revokes' = pending_revokes
          /\ link_data' = link_data
          /\ link_file' = link_file
          /\ link_last'.calls = {}
          /\ link_last'.saves = 0]_vars

(* /revoke_all found nothing to revoke although the registry holds a link
   with uses left, which has expired; nobody awaits a confirmation *)
C24_Witness ==
    /\ link_last.op = "revoke_all"
    /\ link_last.reply = "nothing_to_revoke"
    /\ \E l \in DOMAIN link_data :
          /\ link_data[l].uses < link_data[l].max_uses
          /\ link_data[l].expires_at <= link_clock
    /\ pending_confirmations = {}
    /\ pending_revokes = {}

(* the step is a crash inside the loop of the revoke-all, before its
   save_data *)
CrashInRevokeAll ==
    /\ LinkHandlerStep
    /\ link_last'.op = "crash"
    /\ link_last'.text = Yes
    /\ link_last'.reply = "before_save"

(* C25: when the process dies during a revoke-all, before the save that
   follows the loop, the store is as it was before the revoke-all, and the
   registry loaded at the restart is the registry as it was before the
   revoke-all: the links that were revoked at the platform and deleted in
   memory are in it again. *)
C25_CrashInRevokeAllKeepsStore ==
    [][CrashInRevokeAll =>
          /\ link_file' = link_file
          /\ link_data' = link_data
          /\ \A c \in link_last'.calls :
                c.link \in DOMAIN link_data'
                    /\ link_data'[c.link] = link_data[c.link]]_vars

(* the process died after one of two active links was revoked: both are in
   the registry after the restart, and active *)
C25_Witness ==
    /\ link_last.op = "crash"
    /\ link_last.text = Yes
    /\ link_last.reply = "before_save"
    /\ Cardinality(link_last.calls) = 1
    /\ Cardinality(ActiveNow) = 2
    /\ \A c \in link_last.calls : c.link \in ActiveNow

(* the step is a handler of the link bot whose write of the store failed *)
LinkSaveFailed == LinkHandlerStep /\ link_faults' # link_faults

(* the step is a handler of the member bot whose write of the store failed *)
JoinSaveFailed == join_ticks' = join_ticks /\ join_faults' # join_faults

(* the step is a chat_member update for a new member, with the write of
   the store ending as `out` *)
TrackStep(chat, user, out) ==
    JoinApply(track_chat_member(chat, user, "member", out), "chat_member", "")

(* C26: a handler whose write of the store failed has made its change to
   the registry in memory and has answered as it does after a write that
   succeeded, the store is as it was or truncated; and every write that
   does not fail leaves the store with the whole registry of that moment,
   so with every earlier change that was not saved.  For both bots. *)
C26_FailedSaveKeepsMutation ==
    [][/\ LinkSaveFailed =>
             /\ link_last'.saves = 1
             /\ link_file' \in {link_file, CorruptFile}
             /\ CASE link_last'.reply = "generated" ->
                        /\ link_last'.text \notin DOMAIN link_data
                        /\ link_last'.text \in DOMAIN link_data'
                        /\ SameRecords(DOMAIN link_data)
                  [] link_last'.reply = "revoked" ->
                        /\ RevokeArg \in DOMAIN link_data
                        /\ DOMAIN link_data' = DOMAIN link_data \ {RevokeArg}
                        /\ SameRecords(DOMAIN link_data \ {RevokeArg})
                  [] link_last'.reply = "revoked_all" ->
                        /\ DOMAIN link_data' = DOMAIN link_data \ ActiveNow
                        /\ SameRecords(DOMAIN link_data \ ActiveNow)
                  [] OTHER -> FALSE
       /\ LinkHandlerStep /\ link_last'.saves = 1
             /\ link_faults' = link_faults =>
             link_file' = [state |-> "ok", data |-> link_data']
       /\ JoinSaveFailed =>
             /\ join_last'.saves = 1
             /\ join_file' \in {join_file, CorruptFile}
             /\ join_last'.reply \in {"tracked", "initialized", "summary"}
             /\ join_last'.reply = "summary" =>
                   Records(join_data')
                       = Records(join_data)
                           \ {<<r.chat, r.user>> :
                                 r \in {x \in join_last'.results :
                                           x.out = "ok"}}
       /\ JoinSaveFailed /\ join_last'.op = "chat_member" =>
             \A chat \in Chats, user \in Humans,
                out \in {"open_failed", "write_failed"} :
                 TrackStep(chat, user, out) =>
                     /\ <<chat, user>> \in Records(join_data')
                     /\ JoinedAt(join_data', <<chat, user>>) = join_clock
       /\ join_ticks' = join_ticks /\ join_last'.saves = 1
             /\ join_faults' = join_faults =>
             join_file' = [state |-> "ok", data |-> join_data']]_vars

(* a write of the store of the link bot has failed, and the /link that came
   later has left the store with the registry of two links *)
C26_Witness ==
    /\ link_faults < MaxFaults
    /\ link_last.op = "link"
    /\ link_last.reply = "generated"
    /\ Cardinality(DOMAIN link_data) = 2
    /\ link_file = [state |-> "ok", data |-> link_data]

(* C27: the confirmed revoke-all revokes and deletes the links that are
   active when the confirmation is handled, whatever was active when it was
   asked for: a link that has become active since the request is revoked
   and deleted, and a link that was active at the request and has expired
   since stays in the registry. *)
C27_ActiveAtConfirmation ==
    [][RevokeAllExecuted =>
          /\ link_last'.user \in DOMAIN link_asked
          /\ {c.link : c \in link_last'.calls} = ActiveNow
          /\ DOMAIN link_data \ DOMAIN link_data' = ActiveNow
          /\ \A l \in ActiveNow \ link_asked[link_last'.user] :
                l \notin DOMAIN link_data'
          /\ \A l \in (link_asked[link_last'.user] \cap DOMAIN link_data)
                        \ ActiveNow :
                l \in DOMAIN link_data' /\ link_data'[l] = link_data[l]]_vars

(* a revoke-all has revoked a link that was issued after the request and has
   left a link that was active at the request and expired before the
   confirmation *)
C27_Witness ==
    /\ link_last.reply = "revoked_all"
    /\ \E c \in link_last.calls : c.link \notin link_last.asked
    /\ \E l \in link_last.asked \cap DOMAIN link_data :
          /\ link_data[l].expires_at <= link_clock
          /\ link_data[l].uses < link_data[l].max_uses
          /\ l \notin {c.link : c \in link_last.calls}

====
